---- MODULE Spec2Model ----
(***************************************************************************)
(* Model of src-tauri/src/commands/hardware.rs: the Sampler thread spawned *)
(* by initialize_system and the six tauri commands (accessors) that read   *)
(* the shared AppState.                                                    *)
(*                                                                         *)
(* Every f32/f64 the program stores or returns is either integer valued (a *)
(* rounded percentage) or NaN; such a float is modelled by its integer     *)
(* value and NaN by the out-of-range value NaN below.  The f64 quotient    *)
(* and product behind the memory percentage are computed bit by bit, with  *)
(* the roundings of IEEE-754 binary64, and so is the f32 mean of the GPU   *)
(* probe, with those of binary32.                                          *)
(***************************************************************************)
EXTENDS Integers, Sequences, FiniteSets, TLC

\* const HISTORY_CAPACITY: usize = 60
HISTORY_CAPACITY == 60

\* The float NaN (0.0 / 0.0): no percentage, outside every range.
NaN == -1

\* Bounds of the exploration.
MaxTicks == 2
MaxSpins == 2

\* ------------------------------------------------------------ input domains

\* The machines explored: what the probes report as the number of logical
\* cores and as total_memory().  The first is a platform sysinfo does not
\* support (no cores, no memory figures).  Memory figures are in units of
\* 1 GiB: scaling used and total by the same power of two changes no bit of
\* the f64 mantissas, hence not the percentage.  gpus is what the nvapi probe
\* would meet: whether PhysicalGpu::enumerate() succeeds and, per device it
\* lists, whether usages() succeeds, whether a Graphics domain is reported and
\* its Percentage.  The first machine has one GPU at 30 percent, the second
\* none.
Hosts == { [ncores |-> 0, total_memory |-> 0,
            gpus |-> [enumerate_ok |-> TRUE,
                      devices |-> <<[usages_ok |-> TRUE, has_graphics |-> TRUE,
                                     percent |-> 30]>>]],
           [ncores |-> 2, total_memory |-> 40,
            gpus |-> [enumerate_ok |-> TRUE, devices |-> <<>>]] }
\* What one refresh may read on a machine with enough cores and memory: the
\* per-core cpu_usage() values (percent) and used_memory().
Loads == { [usage |-> <<25, 100>>, used |-> 15],
           [usage |-> <<100, 100>>, used |-> 23] }
\* The `seconds` arguments of the history commands.
SecondsValues == {2, HISTORY_CAPACITY}
\* Lengths of the rings handed to initialize_system.
InitFills == {0, HISTORY_CAPACITY - 1}

Accessors == {"a1", "a2"}
Locks == {"system", "cpu_history", "memory_history", "gpu_history", "gpu_usage"}
Commands == {"get_cpu_usage", "get_memory_usage", "get_gpu_usage",
             "get_cpu_usage_history", "get_memory_usage_history",
             "get_gpu_usage_history"}
HistoryCommands == {"get_cpu_usage_history", "get_memory_usage_history",
                    "get_gpu_usage_history"}
NoThread == "none"

VARIABLES
  system,          \* AppState.system: the sysinfo snapshot
  cpu_history,     \* AppState.cpu_history, oldest first
  memory_history,  \* AppState.memory_history
  gpu_history,     \* AppState.gpu_history
  gpu_usage,       \* AppState.gpu_usage
  holder,          \* per Mutex: the thread holding its guard, or NoThread
  poisoned,        \* per Mutex: its poison flag
  host,            \* the machine: what its probes report
  pc,              \* the Sampler thread's position in its loop
  cpu_usage,       \* the Sampler's local cpu_usage
  memory_usage,    \* the Sampler's local memory_usage
  acc,             \* per caller thread: position, command and argument
  ret,             \* what the command that ended in the latest step handed
                   \* to its caller (NoReturn when the latest step ended none)
  initial,         \* history: the rings as handed to initialize_system
  pushed,          \* history: per ring, the samples push_back'ed so far
  committed,       \* history: the snapshot as of the latest release of the system lock
  ticks,           \* history: loop bodies run to their end
  spins            \* history: failed system.lock() attempts since the latest sleep

vars == <<system, cpu_history, memory_history, gpu_history, gpu_usage, holder,
          poisoned, host, pc, cpu_usage, memory_usage, acc, ret, initial,
          pushed, committed, ticks, spins>>

\* ------------------------------------------------------------ pure helpers

Min(a, b) == IF a < b THEN a ELSE b

RECURSIVE Sum(_)
Sum(s) == IF s = <<>> THEN 0 ELSE Head(s) + Sum(Tail(s))

\* f32::round / f64::round of the non-negative quotient num/den:
\* to the nearest integer, halves away from zero.
round(num, den) == (2 * num + den) \div (2 * den)

\* `x as i32` of an integer-valued or NaN float: the cast saturates, NaN gives 0.
as_i32(x) == IF x = NaN THEN 0 ELSE x

\* (total_usage / cpus.len() as f32).round(): 0.0 / 0.0 is NaN.
cpu_percent(cpus) ==
  IF Len(cpus) = 0 THEN NaN ELSE round(Sum(cpus), Len(cpus))

\* ---- f64 arithmetic.  A positive f64 is [m, e]: m its 53 mantissa bits,
\* most significant (always 1) first, e the binary exponent of its last bit.

\* f64::MANTISSA_DIGITS
F64_MANTISSA_DIGITS == 53

\* The doublings that bring u into [t, 2t), for 0 < u <= t.
RECURSIVE shift(_, _)
shift(u, t) == IF u >= t THEN 0 ELSE 1 + shift(2 * u, t)

RECURSIVE pow2(_)
pow2(n) == IF n = 0 THEN 1 ELSE 2 * pow2(n - 1)

\* 2^n modulo t
RECURSIVE pow2_mod(_, _)
pow2_mod(n, t) ==
  IF n = 0 THEN 1 % t
  ELSE IF n % 2 = 1 THEN (2 * pow2_mod(n - 1, t)) % t
  ELSE (pow2_mod(n \div 2, t) * pow2_mod(n \div 2, t)) % t

\* What is left of r after the first n bits of the binary fraction r / t,
\* for r < t, and those bits.
div_rem(r, t, n) == (r * pow2_mod(n, t)) % t
div_bits(r, t, n) ==
  SubSeq([i \in 1..n |-> (2 * div_rem(r, t, i - 1)) \div t], 1, n)

\* bits + 1; one bit longer when every bit was 1.
inc(bits) ==
  IF \A i \in 1..Len(bits) : bits[i] = 1 THEN <<1>> \o [i \in 1..Len(bits) |-> 0]
  ELSE LET z == CHOOSE i \in 1..Len(bits) :
                  bits[i] = 0 /\ \A j \in (i + 1)..Len(bits) : bits[j] = 1
       IN  SubSeq(bits, 1, z - 1) \o <<1>> \o [i \in 1..(Len(bits) - z) |-> 0]

\* The carry into bit i of a + b: some lower bit generates one and every bit
\* in between passes it on.
carry(a, b, i) ==
  IF \E j \in (i + 1)..Len(a) :
       /\ a[j] + b[j] = 2
       /\ \A m \in (i + 1)..(j - 1) : a[m] + b[m] = 1
  THEN 1 ELSE 0

\* a + b for two bit strings of one length; the sum is one bit longer.
add(a, b) ==
  <<carry(a, b, 0)>> \o
    SubSeq([i \in 1..Len(a) |-> (a[i] + b[i] + carry(a, b, i)) % 2], 1, Len(a))

zeros(n) == [i \in 1..n |-> 0]

\* bits without its leading zeros (some bit is 1).
strip(bits) ==
  SubSeq(bits, CHOOSE i \in 1..Len(bits) :
                 bits[i] = 1 /\ \A j \in 1..(i - 1) : bits[j] = 0, Len(bits))

RECURSIVE to_nat(_)
to_nat(bits) ==
  IF bits = <<>> THEN 0
  ELSE 2 * to_nat(SubSeq(bits, 1, Len(bits) - 1)) + bits[Len(bits)]

\* Round to nearest, ties to even: bits are the kept mantissa bits, and the
\* discarded rest is above a half, exactly a half, or below.
nearest_even(bits, e, above_half, half) ==
  LET up == above_half \/ (half /\ bits[Len(bits)] = 1)
      m == IF up THEN inc(bits) ELSE bits
  IN  IF Len(m) > Len(bits) THEN [m |-> SubSeq(m, 1, Len(bits)), e |-> e + 1]
      ELSE [m |-> m, e |-> e]

\* used as f64 / total as f64, for 0 < u <= t
f64_div(u, t) ==
  LET s == shift(u, t)
      r == u * pow2(s) - t
      rem == div_rem(r, t, F64_MANTISSA_DIGITS - 1)
  IN  nearest_even(<<1>> \o div_bits(r, t, F64_MANTISSA_DIGITS - 1),
                   1 - F64_MANTISSA_DIGITS - s, 2 * rem > t, 2 * rem = t)

\* q * 100.0: 100 = 64 + 32 + 4
f64_mul_100(q) ==
  LET x64 == zeros(1) \o q.m \o zeros(6)
      x32 == zeros(2) \o q.m \o zeros(5)
      x4 == zeros(5) \o q.m \o zeros(2)
      p == strip(add(add(x64, x32), zeros(1) \o x4))
      k == Len(p) - F64_MANTISSA_DIGITS
      rest == SubSeq(p, F64_MANTISSA_DIGITS + 1, Len(p))
      sticky == \E i \in 2..k : rest[i] = 1
  IN  nearest_even(SubSeq(p, 1, F64_MANTISSA_DIGITS), q.e + k,
                   rest[1] = 1 /\ sticky, rest[1] = 1 /\ ~sticky)

\* f64::round of a positive f64 below 2^53: halves away from zero.
f64_round(x) ==
  LET n == F64_MANTISSA_DIGITS + x.e
  IN  IF n < 0 THEN 0 ELSE to_nat(SubSeq(x.m, 1, n)) + x.m[n + 1]

\* ((used / total) * 100.0).round(), for used <= total: 0.0 / 0.0 is NaN.
f64_percent(used, total) ==
  IF total = 0 THEN NaN
  ELSE IF used = 0 THEN 0
  ELSE f64_round(f64_mul_100(f64_div(used, total)))

\* The memory figures the machines explored can report, and their percentages.
MemoryFigures ==
  {<<0, 0>>} \cup {<<Min(l.used, h.total_memory), h.total_memory>> :
                     l \in Loads, h \in Hosts}
MemoryPercentages == [f \in MemoryFigures |-> f64_percent(f[1], f[2])]

\* (used_memory / total_memory * 100.0).round(), for used <= total.
memory_percent(used, total) ==
  IF <<used, total>> \in MemoryFigures THEN MemoryPercentages[<<used, total>>]
  ELSE f64_percent(used, total)

\* ---- f32 arithmetic of the GPU probe.  A positive f32 is [m, e] with 24
\* mantissa bits; 0.0 has no mantissa bits.

\* f32::MANTISSA_DIGITS
F32_MANTISSA_DIGITS == 24

f32_zero == [m |-> <<>>, e |-> 0]

\* The bits of the positive integer n, most significant first.
to_bits(n) ==
  LET len == CHOOSE l \in 1..30 : pow2(l - 1) <= n /\ n < pow2(l)
  IN  SubSeq([i \in 1..len |-> (n \div pow2(len - i)) % 2], 1, len)

\* The f32 nearest to bits * 2^e (+ a positive rest below the last bit when
\* inexact), for more than 24 bits, the first of them 1.
f32_nearest(bits, e, inexact) ==
  LET k == Len(bits) - F32_MANTISSA_DIGITS
      rest == SubSeq(bits, F32_MANTISSA_DIGITS + 1, Len(bits))
      sticky == inexact \/ \E i \in 2..k : rest[i] = 1
  IN  nearest_even(SubSeq(bits, 1, F32_MANTISSA_DIGITS), e + k,
                   rest[1] = 1 /\ sticky, rest[1] = 1 /\ ~sticky)

\* gpu_usage.0 as f32 / 100.0, for a Percentage of 0..100
f32_div_100(percent) ==
  IF percent = 0 THEN f32_zero
  ELSE LET s == shift(percent, 100)
           r == percent * pow2(s) - 100
           rem == div_rem(r, 100, F32_MANTISSA_DIGITS - 1)
       IN  nearest_even(<<1>> \o div_bits(r, 100, F32_MANTISSA_DIGITS - 1),
                        1 - F32_MANTISSA_DIGITS - s, 2 * rem > 100, 2 * rem = 100)

\* total_usage += usage_f32
f32_add(a, b) ==
  IF a = f32_zero THEN b
  ELSE IF b = f32_zero THEN a
  ELSE LET e == Min(a.e, b.e)
           x == a.m \o zeros(a.e - e)
           y == b.m \o zeros(b.e - e)
           len == IF Len(x) > Len(y) THEN Len(x) ELSE Len(y)
           sum == strip(add(zeros(len - Len(x)) \o x, zeros(len - Len(y)) \o y))
       IN  IF Len(sum) = F32_MANTISSA_DIGITS THEN [m |-> sum, e |-> e]
           ELSE f32_nearest(sum, e, FALSE)

\* total_usage / gpu_count as f32, for 1 to 8 devices
f32_div_count(x, count) ==
  IF x = f32_zero THEN f32_zero
  ELSE LET n == to_nat(x.m) * 16
       IN  f32_nearest(to_bits(n \div count), x.e - 4, n % count # 0)

\* The for loop over the devices of fn get_gpu_usage, from device i on: the
\* first usages() failure ends it; a device without a Graphics domain is
\* passed over.
RECURSIVE gpu_loop(_, _, _, _)
gpu_loop(devices, i, total_usage, gpu_count) ==
  IF i > Len(devices)
  THEN [failed |-> FALSE, total_usage |-> total_usage, gpu_count |-> gpu_count]
  ELSE IF ~devices[i].usages_ok
  THEN [failed |-> TRUE, total_usage |-> total_usage, gpu_count |-> gpu_count]
  ELSE IF devices[i].has_graphics
  THEN gpu_loop(devices, i + 1,
                f32_add(total_usage, f32_div_100(devices[i].percent)),
                gpu_count + 1)
  ELSE gpu_loop(devices, i + 1, total_usage, gpu_count)

\* fn get_gpu_usage() -> Result<f32, nvapi::Status>, nested in
\* initialize_system and called from nowhere.  Err with the status of the
\* failed call when enumerate() or a device's usages() fails, Err(Status::Error)
\* when no device is found or none reports a Graphics domain, else Ok of the
\* f32 mean of the devices' utilization / 100.
nvapi_gpu_usage(gpus) ==
  IF ~gpus.enumerate_ok THEN [ok |-> FALSE, err |-> "enumerate", usage |-> f32_zero]
  ELSE IF Len(gpus.devices) = 0 THEN [ok |-> FALSE, err |-> "Error", usage |-> f32_zero]
  ELSE LET sums == gpu_loop(gpus.devices, 1, f32_zero, 0)
       IN  IF sums.failed THEN [ok |-> FALSE, err |-> "usages", usage |-> f32_zero]
           ELSE IF sums.gpu_count = 0
           THEN [ok |-> FALSE, err |-> "Error", usage |-> f32_zero]
           ELSE [ok |-> TRUE, err |-> "none",
                 usage |-> f32_div_count(sums.total_usage, sums.gpu_count)]

\* What the probe would return on each machine explored, and on this one.
GpuProbes == {<<h.gpus, nvapi_gpu_usage(h.gpus)>> : h \in Hosts}
gpu_probe == (CHOOSE e \in GpuProbes : e[1] = host.gpus)[2]

\* Faulty evictions: one that waits for the ring to exceed its capacity, one
\* that drops the newest entry.
pop_front_gt(hist) ==
  IF Len(hist) > HISTORY_CAPACITY THEN Tail(hist) ELSE hist
pop_back_if_full(hist) ==
  IF Len(hist) >= HISTORY_CAPACITY THEN SubSeq(hist, 1, Len(hist) - 1) ELSE hist
\* if hist.len() >= HISTORY_CAPACITY { hist.pop_front(); }
pop_front_if_full(hist) ==
  IF Len(hist) >= HISTORY_CAPACITY THEN Tail(hist) ELSE hist

\* hist.push_back(sample)
push_back(hist, sample) == Append(hist, sample)

\* Faulty reads: without rev(), without take(seconds), and one that pads an
\* empty history.
take_oldest_first(hist, seconds) ==
  SubSeq(hist, Len(hist) - Min(seconds, Len(hist)) + 1, Len(hist))
take_all(hist, seconds) ==
  [i \in 1..Len(hist) |-> hist[Len(hist) + 1 - i]]
take_padded(hist, seconds) ==
  IF hist = <<>> /\ seconds > 0 THEN <<0>>
  ELSE [i \in 1..Min(seconds, Len(hist)) |-> hist[Len(hist) + 1 - i]]
\* history.iter().rev().take(seconds).cloned().collect()
rev_take(hist, seconds) ==
  [i \in 1..Min(seconds, Len(hist)) |-> hist[Len(hist) + 1 - i]]

\* A lock() that does not wait.
lock_ignored(l) == TRUE
\* Mutex::lock() blocks while another thread holds the guard.
lock_free(l) == holder[l] = NoThread

\* The Mutex a command locks.
LockOf(cmd) ==
  CASE cmd \in {"get_cpu_usage", "get_memory_usage"} -> "system"
    [] cmd = "get_gpu_usage" -> "gpu_usage"
    [] cmd = "get_cpu_usage_history" -> "cpu_history"
    [] cmd = "get_memory_usage_history" -> "memory_history"
    [] cmd = "get_gpu_usage_history" -> "gpu_history"

\* ------------------------------------------------------------ initial state

\* A ring of n earlier samples, pairwise distinct percentages.
Prefilled(n, seed) == [i \in 1..n |-> (seed + 7 * i) % 101]

\* System::new(): no CPU list and no memory figures before the first refresh.
NewSystem == [cpus |-> <<>>, used_memory |-> 0, total_memory |-> 0]

\* The value the gpu_usage cell is created with.
InitialGpuUsage == 0

Idle == [pc |-> "idle", cmd |-> "none", seconds |-> 0]
NoReturn == [cmd |-> "none", seconds |-> 0, outcome |-> "none", value |-> 0,
             samples |-> <<>>]

\* The state initialize_system starts from.  The five Mutexes are its
\* arguments: the rings may hold earlier samples, and a Mutex whose holder
\* panicked elsewhere in the process arrives poisoned.
Init ==
  /\ system = NewSystem
  /\ \E n \in InitFills :
       /\ cpu_history = Prefilled(n, 0)
       /\ memory_history = Prefilled(n, 3)
       /\ gpu_history = Prefilled(n, 5)
  /\ gpu_usage = InitialGpuUsage
  /\ holder = [l \in Locks |-> NoThread]
  /\ \E p \in Locks \cup {"none"} : poisoned = [l \in Locks |-> l = p]
  /\ host \in Hosts
  /\ pc = "lock_system"
  /\ cpu_usage = 0
  /\ memory_usage = 0
  /\ acc = [a \in Accessors |-> Idle]
  /\ ret = NoReturn
  /\ initial = [cpu |-> cpu_history, memory |-> memory_history, gpu |-> gpu_history]
  /\ pushed = [cpu |-> <<>>, memory |-> <<>>, gpu |-> <<>>]
  /\ committed = system
  /\ ticks = 0
  /\ spins = 0

\* ------------------------------------------------------------ the Sampler
\* The closure of thread::spawn(move || loop { ... }) in initialize_system.

\* The snapshots a refresh may produce on this machine.
Readings ==
  { [cpus |-> SubSeq(l.usage, 1, host.ncores),
     used_memory |-> Min(l.used, host.total_memory),
     total_memory |-> host.total_memory] : l \in Loads }

\* system.lock() returned Ok: the guard `sys` is held to the end of the block.
SamplerLockSystem ==
  /\ pc = "lock_system"
  /\ lock_free("system")
  /\ ~poisoned["system"]
  /\ holder' = [holder EXCEPT !["system"] = "sampler"]
  /\ pc' = "refresh"
  /\ ret' = NoReturn
  /\ UNCHANGED <<system, cpu_history, memory_history, gpu_history, gpu_usage,
                 poisoned, host, cpu_usage, memory_usage, acc, initial,
                 pushed, committed, ticks, spins>>

\* system.lock() returned Err (the Mutex is poisoned): `continue` starts the
\* next iteration of the loop at once; the sleep below the block is not reached.
SamplerLockSystemErr ==
  /\ pc = "lock_system"
  /\ lock_free("system")
  /\ poisoned["system"]
  /\ spins < MaxSpins
  /\ spins' = spins + 1
  /\ pc' = "lock_system"
  /\ ret' = NoReturn
  /\ UNCHANGED <<system, cpu_history, memory_history, gpu_history, gpu_usage,
                 holder, poisoned, host, cpu_usage, memory_usage, acc,
                 initial, pushed, committed, ticks>>

\* A refresh that asks the GPU probe first and gives the tick up when the
\* probe fails.
SamplerRefresh_gpu_first ==
  /\ pc = "refresh"
  /\ IF gpu_probe.ok
     THEN /\ \E r \in Readings :
               /\ system' = r
               /\ cpu_usage' = cpu_percent(r.cpus)
               /\ memory_usage' = memory_percent(r.used_memory, r.total_memory)
          /\ pc' = "lock_cpu"
     ELSE /\ pc' = "unlock_system"
          /\ UNCHANGED <<system, cpu_usage, memory_usage>>
  /\ ret' = NoReturn
  /\ UNCHANGED <<cpu_history, memory_history, gpu_history, gpu_usage, holder,
                 poisoned, host, acc, initial, pushed, committed, ticks,
                 spins>>

\* A refresh whose guard `sys` is dropped as soon as the two percentages are
\* computed, before the pushes.
SamplerRefresh_early_drop ==
  /\ pc = "refresh"
  /\ \E r \in Readings :
       /\ system' = r
       /\ cpu_usage' = cpu_percent(r.cpus)
       /\ memory_usage' = memory_percent(r.used_memory, r.total_memory)
  /\ holder' = [holder EXCEPT !["system"] = NoThread]
  /\ pc' = "lock_cpu"
  /\ ret' = NoReturn
  /\ UNCHANGED <<cpu_history, memory_history, gpu_history, gpu_usage,
                 poisoned, host, acc, initial, pushed, committed, ticks,
                 spins>>

\* sys.refresh_cpu_all(); sys.refresh_memory(); then the two percentages.
SamplerRefresh ==
  /\ pc = "refresh"
  /\ \E r \in Readings :
       /\ system' = r
       /\ cpu_usage' = cpu_percent(r.cpus)
       /\ memory_usage' = memory_percent(r.used_memory, r.total_memory)
  /\ pc' = "lock_cpu"
  /\ ret' = NoReturn
  /\ UNCHANGED <<cpu_history, memory_history, gpu_history, gpu_usage, holder,
                 poisoned, host, acc, initial, pushed, committed, ticks,
                 spins>>

\* .lock().unwrap() on a poisoned ring: the Sampler thread panics. Unwinding
\* drops the guard `sys`, which poisons the system Mutex, and the thread ends.
SamplerPanic ==
  /\ pc' = "panicked"
  /\ holder' = [holder EXCEPT !["system"] = NoThread]
  /\ poisoned' = [poisoned EXCEPT !["system"] = TRUE]
  /\ committed' = system
  /\ ret' = NoReturn
  /\ UNCHANGED <<system, cpu_history, memory_history, gpu_history, gpu_usage,
                 host, cpu_usage, memory_usage, acc, initial, pushed, ticks,
                 spins>>

\* cpu_history.lock() returned Ok.
SamplerGuardCpu ==
  /\ holder' = [holder EXCEPT !["cpu_history"] = "sampler"]
  /\ pc' = "evict_cpu"
  /\ ret' = NoReturn
  /\ UNCHANGED <<system, cpu_history, memory_history, gpu_history, gpu_usage,
                 poisoned, host, cpu_usage, memory_usage, acc, initial,
                 pushed, committed, ticks, spins>>

\* let mut cpu_hist = cpu_history.lock().unwrap();
SamplerLockCpu ==
  /\ pc = "lock_cpu"
  /\ lock_free("cpu_history")
  /\ \/ poisoned["cpu_history"] /\ SamplerPanic
     \/ ~poisoned["cpu_history"] /\ SamplerGuardCpu

\* if cpu_hist.len() >= HISTORY_CAPACITY { cpu_hist.pop_front(); }
SamplerEvictCpu ==
  /\ pc = "evict_cpu"
  /\ cpu_history' = pop_front_if_full(cpu_history)
  /\ pc' = "push_cpu"
  /\ ret' = NoReturn
  /\ UNCHANGED <<system, memory_history, gpu_history, gpu_usage, holder,
                 poisoned, host, cpu_usage, memory_usage, acc, initial,
                 pushed, committed, ticks, spins>>

\* cpu_hist.push_back(cpu_usage); the guard is dropped at the end of the block.
SamplerPushCpu ==
  /\ pc = "push_cpu"
  /\ cpu_history' = push_back(cpu_history, cpu_usage)
  /\ pushed' = [pushed EXCEPT !.cpu = Append(@, cpu_usage)]
  /\ holder' = [holder EXCEPT !["cpu_history"] = NoThread]
  /\ pc' = "lock_memory"
  /\ ret' = NoReturn
  /\ UNCHANGED <<system, memory_history, gpu_history, gpu_usage, poisoned,
                 host, cpu_usage, memory_usage, acc, initial, committed,
                 ticks, spins>>

\* memory_history.lock() returned Ok.
SamplerGuardMemory ==
  /\ holder' = [holder EXCEPT !["memory_history"] = "sampler"]
  /\ pc' = "evict_memory"
  /\ ret' = NoReturn
  /\ UNCHANGED <<system, cpu_history, memory_history, gpu_history, gpu_usage,
                 poisoned, host, cpu_usage, memory_usage, acc, initial,
                 pushed, committed, ticks, spins>>

\* let mut memory_hist = memory_history.lock().unwrap();
SamplerLockMemory ==
  /\ pc = "lock_memory"
  /\ lock_free("memory_history")
  /\ \/ poisoned["memory_history"] /\ SamplerPanic
     \/ ~poisoned["memory_history"] /\ SamplerGuardMemory

\* if memory_hist.len() >= HISTORY_CAPACITY { memory_hist.pop_front(); }
SamplerEvictMemory ==
  /\ pc = "evict_memory"
  /\ memory_history' = pop_front_if_full(memory_history)
  /\ pc' = "push_memory"
  /\ ret' = NoReturn
  /\ UNCHANGED <<system, cpu_history, gpu_history, gpu_usage, holder,
                 poisoned, host, cpu_usage, memory_usage, acc, initial,
                 pushed, committed, ticks, spins>>

\* A memory push that lands in the GPU path as well: the memory sample is
\* also stored in the gpu_usage cell and pushed onto gpu_history.
SamplerPushMemory_then_gpu ==
  /\ pc = "push_memory"
  /\ memory_history' = push_back(memory_history, memory_usage)
  /\ gpu_usage' = memory_usage
  /\ gpu_history' = push_back(pop_front_if_full(gpu_history), gpu_usage')
  /\ pushed' = [pushed EXCEPT !.memory = Append(@, memory_usage),
                              !.gpu = Append(@, gpu_usage')]
  /\ holder' = [holder EXCEPT !["memory_history"] = NoThread]
  /\ pc' = "unlock_system"
  /\ ret' = NoReturn
  /\ UNCHANGED <<system, cpu_history, poisoned, host, cpu_usage, memory_usage,
                 acc, initial, committed, ticks, spins>>

\* memory_hist.push_back(memory_usage); the guard is dropped at the end of the block.
SamplerPushMemory ==
  /\ pc = "push_memory"
  /\ memory_history' = push_back(memory_history, memory_usage)
  /\ pushed' = [pushed EXCEPT !.memory = Append(@, memory_usage)]
  /\ holder' = [holder EXCEPT !["memory_history"] = NoThread]
  /\ pc' = "unlock_system"
  /\ ret' = NoReturn
  /\ UNCHANGED <<system, cpu_history, gpu_history, gpu_usage, poisoned, host,
                 cpu_usage, memory_usage, acc, initial, committed, ticks,
                 spins>>

\* A loop body without its inner block: the two locals are dropped but the
\* guard `sys` lives through the sleep.
SamplerUnlockSystem_after_sleep ==
  /\ pc = "unlock_system"
  /\ committed' = system
  /\ cpu_usage' = 0
  /\ memory_usage' = 0
  /\ ticks' = ticks + 1
  /\ pc' = "sleep"
  /\ ret' = NoReturn
  /\ UNCHANGED <<system, cpu_history, memory_history, gpu_history, gpu_usage,
                 holder, poisoned, host, acc, initial, pushed, spins>>

\* The end of the block: `sys` and the two locals are dropped.
SamplerUnlockSystem ==
  /\ pc = "unlock_system"
  /\ holder' = [holder EXCEPT !["system"] = NoThread]
  /\ committed' = system
  /\ cpu_usage' = 0
  /\ memory_usage' = 0
  /\ ticks' = ticks + 1
  /\ pc' = "sleep"
  /\ ret' = NoReturn
  /\ UNCHANGED <<system, cpu_history, memory_history, gpu_history, gpu_usage,
                 poisoned, host, acc, initial, pushed, spins>>

\* thread::sleep(Duration::from_secs(SYSTEM_INFO_INIT_INTERVAL)), then the
\* next iteration.
SamplerSleep ==
  /\ pc = "sleep"
  /\ ticks < MaxTicks
  /\ spins' = 0
  /\ pc' = "lock_system"
  /\ ret' = NoReturn
  /\ UNCHANGED <<system, cpu_history, memory_history, gpu_history, gpu_usage,
                 holder, poisoned, host, cpu_usage, memory_usage, acc,
                 initial, pushed, committed, ticks>>

Sampler ==
  \/ SamplerLockSystem
  \/ SamplerLockSystemErr
  \/ SamplerRefresh
  \/ SamplerLockCpu
  \/ SamplerEvictCpu
  \/ SamplerPushCpu
  \/ SamplerLockMemory
  \/ SamplerEvictMemory
  \/ SamplerPushMemory
  \/ SamplerUnlockSystem
  \/ SamplerSleep

\* ------------------------------------------------------------ the accessors
\* A tauri command runs on a caller thread: it is invoked, locks its Mutex
\* (.lock().unwrap()), reads under the guard and returns, dropping the guard.

\* The command is invoked on thread a; its first statement is the lock() call.
Call(a, cmd, seconds) ==
  /\ acc[a].pc = "idle"
  /\ acc' = [acc EXCEPT ![a] = [pc |-> "waiting", cmd |-> cmd, seconds |-> seconds]]
  /\ ret' = NoReturn
  /\ UNCHANGED <<system, cpu_history, memory_history, gpu_history, gpu_usage,
                 holder, poisoned, host, pc, cpu_usage, memory_usage, initial,
                 pushed, committed, ticks, spins>>

\* .lock() returned Err (poisoned): unwrap() panics the command, which holds
\* no other guard; the guard inside the Err is dropped at once.
Panic(a) ==
  /\ poisoned[LockOf(acc[a].cmd)]
  /\ ret' = [cmd |-> acc[a].cmd, seconds |-> acc[a].seconds,
             outcome |-> "panic", value |-> 0, samples |-> <<>>]
  /\ acc' = [acc EXCEPT ![a] = Idle]
  /\ UNCHANGED holder

\* .lock() returned Ok: the command holds the guard.
Guard(a) ==
  /\ ~poisoned[LockOf(acc[a].cmd)]
  /\ holder' = [holder EXCEPT ![LockOf(acc[a].cmd)] = a]
  /\ acc' = [acc EXCEPT ![a].pc = "locked"]
  /\ ret' = NoReturn

\* .lock().unwrap() once no other thread holds the guard.
Lock(a) ==
  /\ acc[a].pc = "waiting"
  /\ lock_free(LockOf(acc[a].cmd))
  /\ Panic(a) \/ Guard(a)
  /\ UNCHANGED <<system, cpu_history, memory_history, gpu_history, gpu_usage,
                 poisoned, host, pc, cpu_usage, memory_usage, initial, pushed,
                 committed, ticks, spins>>

\* What each command computes under its guard: an i32 (value) or a
\* Vec<f32> (samples).
Result(cmd, seconds) ==
  CASE cmd = "get_cpu_usage" ->
         [value |-> as_i32(cpu_percent(system.cpus)), samples |-> <<>>]
    [] cmd = "get_memory_usage" ->
         [value |-> as_i32(memory_percent(system.used_memory,
                                          system.total_memory)),
          samples |-> <<>>]
    [] cmd = "get_gpu_usage" ->
         [value |-> as_i32(gpu_usage), samples |-> <<>>]
    [] cmd = "get_cpu_usage_history" ->
         [value |-> 0, samples |-> rev_take(cpu_history, seconds)]
    [] cmd = "get_memory_usage_history" ->
         [value |-> 0, samples |-> rev_take(memory_history, seconds)]
    [] cmd = "get_gpu_usage_history" ->
         [value |-> 0, samples |-> rev_take(gpu_history, seconds)]

\* The return of command cmd on thread a: the result goes to the caller and
\* the guard is dropped.
Return(a, cmd) ==
  /\ acc[a].pc = "locked"
  /\ acc[a].cmd = cmd
  /\ ret' = [cmd |-> cmd, seconds |-> acc[a].seconds, outcome |-> "ok",
             value |-> Result(cmd, acc[a].seconds).value,
             samples |-> Result(cmd, acc[a].seconds).samples]
  /\ holder' = [holder EXCEPT ![LockOf(cmd)] = NoThread]
  /\ acc' = [acc EXCEPT ![a] = Idle]
  /\ UNCHANGED <<poisoned, host, pc, cpu_usage, memory_usage, initial, pushed,
                 committed, ticks, spins>>

\* A faulty get_cpu_usage, which resets the CPU counters it has read.
get_cpu_usage_refreshing(a) ==
  /\ Return(a, "get_cpu_usage")
  /\ system' = [system EXCEPT !.cpus = [i \in 1..Len(@) |-> 0]]
  /\ UNCHANGED <<cpu_history, memory_history, gpu_history, gpu_usage>>
get_cpu_usage(a) ==
  /\ Return(a, "get_cpu_usage")
  /\ UNCHANGED <<system, cpu_history, memory_history, gpu_history, gpu_usage>>

get_memory_usage(a) ==
  /\ Return(a, "get_memory_usage")
  /\ UNCHANGED <<system, cpu_history, memory_history, gpu_history, gpu_usage>>

get_gpu_usage(a) ==
  /\ Return(a, "get_gpu_usage")
  /\ UNCHANGED <<system, cpu_history, memory_history, gpu_history, gpu_usage>>

\* A faulty get_cpu_usage_history, which removes the samples it returns.
get_cpu_usage_history_draining(a) ==
  /\ Return(a, "get_cpu_usage_history")
  /\ cpu_history' = SubSeq(cpu_history, 1,
                           Len(cpu_history) - Min(acc[a].seconds, Len(cpu_history)))
  /\ UNCHANGED <<system, memory_history, gpu_history, gpu_usage>>
get_cpu_usage_history(a) ==
  /\ Return(a, "get_cpu_usage_history")
  /\ UNCHANGED <<system, cpu_history, memory_history, gpu_history, gpu_usage>>

get_memory_usage_history(a) ==
  /\ Return(a, "get_memory_usage_history")
  /\ UNCHANGED <<system, cpu_history, memory_history, gpu_history, gpu_usage>>

get_gpu_usage_history(a) ==
  /\ Return(a, "get_gpu_usage_history")
  /\ UNCHANGED <<system, cpu_history, memory_history, gpu_history, gpu_usage>>

Accessor(a) ==
  \/ \E cmd \in Commands \ HistoryCommands : Call(a, cmd, 0)
  \/ \E cmd \in HistoryCommands, n \in SecondsValues : Call(a, cmd, n)
  \/ Lock(a)
  \/ get_cpu_usage(a)
  \/ get_memory_usage(a)
  \/ get_gpu_usage(a)
  \/ get_cpu_usage_history(a)
  \/ get_memory_usage_history(a)
  \/ get_gpu_usage_history(a)

Next == Sampler \/ \E a \in Accessors : Accessor(a)

Spec == Init /\ [][Next]_vars

\* A command that holds its guard runs to its return.
Finish(a) ==
  \/ get_cpu_usage(a)
  \/ get_memory_usage(a)
  \/ get_gpu_usage(a)
  \/ get_cpu_usage_history(a)
  \/ get_memory_usage_history(a)
  \/ get_gpu_usage_history(a)

\* Fair scheduling: a thread that can run keeps being scheduled.  A command
\* that holds its guard runs to its return, the Sampler takes its next step,
\* and a thread in lock() gets a Mutex that stays free.  Mutex::lock promises
\* no order among waiters: a thread waiting for a Mutex that other threads
\* take again and again is given nothing.  Whether and when a command is
\* invoked is up to the callers.
Fairness ==
  /\ WF_vars(Sampler)
  /\ \A a \in Accessors : WF_vars(Lock(a)) /\ WF_vars(Finish(a))

\* The program under fair scheduling, started on a machine with cores and
\* memory and with empty rings, any one Mutex or none poisoned.
FairInit == Init /\ host.ncores > 0 /\ cpu_history = <<>>
FairSpec == FairInit /\ [][Next]_vars /\ Fairness

\* ------------------------------------------------------------ properties

\* Per ring, every sample it has held: those it started with, then the
\* Sampler's pushes, in push order.
Log(m) == initial[m] \o pushed[m]

LastN(s, n) == SubSeq(s, Len(s) - n + 1, Len(s))
Reverse(s) == [i \in 1..Len(s) |-> s[Len(s) + 1 - i]]

\* The ring a history command reads.
MetricOf(cmd) ==
  CASE cmd = "get_cpu_usage_history" -> "cpu"
    [] cmd = "get_memory_usage_history" -> "memory"
    [] cmd = "get_gpu_usage_history" -> "gpu"
RingOf(cmd) ==
  CASE cmd = "get_cpu_usage_history" -> cpu_history
    [] cmd = "get_memory_usage_history" -> memory_history
    [] cmd = "get_gpu_usage_history" -> gpu_history

\* A history command returned in the latest step.
HistoryReturned == ret.outcome = "ok" /\ ret.cmd \in HistoryCommands

\* C1: in every reachable state each history ring holds at most
\* HISTORY_CAPACITY entries (the rings start with at most that many).
C1_RingCapacity ==
  /\ Len(cpu_history) <= HISTORY_CAPACITY
  /\ Len(memory_history) <= HISTORY_CAPACITY
  /\ Len(gpu_history) <= HISTORY_CAPACITY

\* The Sampler has pushed onto a CPU ring that was already full.
C1_Witness ==
  /\ Len(initial.cpu) = HISTORY_CAPACITY - 1
  /\ Len(pushed.cpu) = 2
  /\ Len(cpu_history) = HISTORY_CAPACITY

\* What a ring holds between pushes: the latest min(held so far, capacity)
\* samples, oldest first.
Retained(m) == LastN(Log(m), Min(Len(Log(m)), HISTORY_CAPACITY))
\* What it holds between the eviction and the push_back of one push: a full
\* ring has lost its oldest entry and nothing else, a ring below capacity
\* has lost nothing.
Evicted(m) ==
  IF Len(Log(m)) >= HISTORY_CAPACITY
  THEN LastN(Log(m), HISTORY_CAPACITY - 1)
  ELSE Log(m)

\* C2: a push onto a full ring removes exactly the oldest entry and appends
\* the sample at the tail, a push below capacity removes nothing; so after
\* any sequence of pushes the ring holds exactly the last
\* min(pushes, capacity) samples in push order.
C2_RingHoldsLatest ==
  /\ pc = "push_cpu" => cpu_history = Evicted("cpu")
  /\ pc = "push_memory" => memory_history = Evicted("memory")
  /\ holder["cpu_history"] # "sampler" => cpu_history = Retained("cpu")
  /\ holder["memory_history"] # "sampler" => memory_history = Retained("memory")

\* Two pushes were made onto a ring one short of capacity: the second one
\* evicted the oldest entry, and the ring ends with the two pushed samples.
C2_Witness ==
  /\ Len(initial.memory) = HISTORY_CAPACITY - 1
  /\ Len(pushed.memory) = 2
  /\ pc = "unlock_system"
  /\ memory_history[1] = initial.memory[2]
  /\ memory_history[HISTORY_CAPACITY - 1] = pushed.memory[1]
  /\ memory_history[HISTORY_CAPACITY] = pushed.memory[2]

\* C3: a history command returns samples newest first: element i of the
\* result is the i-th most recently pushed sample.
C3_NewestFirst ==
  HistoryReturned =>
    \A i \in 1..Len(ret.samples) :
      ret.samples[i] = Log(MetricOf(ret.cmd))[Len(Log(MetricOf(ret.cmd))) + 1 - i]

\* get_cpu_usage_history(2) returned the two latest pushes, the later first.
C3_Witness ==
  /\ HistoryReturned
  /\ ret.cmd = "get_cpu_usage_history"
  /\ ret.seconds = 2
  /\ Len(pushed.cpu) = 2
  /\ pushed.cpu[1] # pushed.cpu[2]
  /\ ret.samples = <<pushed.cpu[2], pushed.cpu[1]>>

\* C4: a history command returns exactly min(seconds, samples held)
\* entries, hence at most min(seconds, HISTORY_CAPACITY); after k < capacity
\* pushes onto an empty ring a request for N >= k returns exactly k entries.
C4_HistoryLength ==
  HistoryReturned =>
    /\ Len(ret.samples) = Min(ret.seconds, Len(RingOf(ret.cmd)))
    /\ Len(ret.samples) <= Min(ret.seconds, HISTORY_CAPACITY)
    /\ ( /\ initial[MetricOf(ret.cmd)] = <<>>
         /\ Len(pushed[MetricOf(ret.cmd)]) < HISTORY_CAPACITY
         /\ ret.seconds >= Len(pushed[MetricOf(ret.cmd)]) )
       => Len(ret.samples) = Len(pushed[MetricOf(ret.cmd)])

\* One push onto an empty ring, then a request for 60 entries returned one.
C4_Witness ==
  /\ HistoryReturned
  /\ ret.cmd = "get_cpu_usage_history"
  /\ ret.seconds = HISTORY_CAPACITY
  /\ initial.cpu = <<>>
  /\ Len(pushed.cpu) = 1
  /\ Len(ret.samples) = 1

\* C5 as stated: on rings that start empty, every history command that
\* returns before the Sampler has finished its first pass through the loop
\* body returns the empty sequence.
C5_EmptyBeforeFirstTick ==
  (HistoryReturned /\ initial[MetricOf(ret.cmd)] = <<>> /\ ticks = 0)
    => ret.samples = <<>>

\* C5 amended: on a ring that starts empty, every history command that
\* returns before the Sampler's first push onto that ring returns the empty
\* sequence.
C5_EmptyBeforeFirstPush ==
  ( /\ HistoryReturned
    /\ initial[MetricOf(ret.cmd)] = <<>>
    /\ pushed[MetricOf(ret.cmd)] = <<>> )
    => ret.samples = <<>>

\* In the first tick, after the CPU push and before the memory push,
\* get_memory_usage_history returned nothing.
C5_Witness ==
  /\ HistoryReturned
  /\ ret.cmd = "get_memory_usage_history"
  /\ initial.memory = <<>>
  /\ pushed.memory = <<>>
  /\ Len(pushed.cpu) = 1
  /\ ticks = 0
  /\ ret.samples = <<>>

\* C6: whatever the interleaving with a Sampler in mid-tick, a command
\* returns what it computes on the state as of a release of its lock by the
\* Sampler: get_cpu_usage and get_memory_usage the percentages of the
\* snapshot as of the latest release of the system lock, a history command
\* the reversed tail of the samples pushed so far, never a ring caught
\* between its eviction and its push_back.
C6_ConsistentSnapshots ==
  /\ (ret.outcome = "ok" /\ ret.cmd = "get_cpu_usage")
       => ret.value = as_i32(cpu_percent(committed.cpus))
  /\ (ret.outcome = "ok" /\ ret.cmd = "get_memory_usage")
       => ret.value = as_i32(memory_percent(committed.used_memory,
                                            committed.total_memory))
  /\ HistoryReturned =>
       ret.samples =
         Reverse(LastN(Retained(MetricOf(ret.cmd)),
                       Min(ret.seconds, Len(Retained(MetricOf(ret.cmd))))))

\* The Sampler is in mid-tick, on a full ring; one caller's
\* get_cpu_usage_history(60) returned 60 samples while another caller's
\* get_cpu_usage waits for the system lock.
C6_Witness ==
  /\ holder["system"] = "sampler"
  /\ Len(pushed.cpu) = 2
  /\ ret.outcome = "ok"
  /\ ret.cmd = "get_cpu_usage_history"
  /\ ret.seconds = HISTORY_CAPACITY
  /\ Len(ret.samples) = HISTORY_CAPACITY
  /\ \E a \in Accessors : acc[a].pc = "waiting" /\ acc[a].cmd = "get_cpu_usage"

\* C7 as stated: no command ever ends in a panic, whatever the state of the
\* locks.
C7_NoAccessorPanics == ret.outcome # "panic"

\* The shared data the commands read.
data == <<system, cpu_history, memory_history, gpu_history, gpu_usage>>

\* C8: a step of a command (a caller thread moves) changes neither the
\* rings, nor the GPU cell, nor the system snapshot; they change only in
\* steps of the Sampler.
C8_AccessorsReadOnly ==
  [][ /\ acc' # acc => data' = data
      /\ data' # data => (pc' # pc /\ acc' = acc) ]_vars

\* get_gpu_usage_history returned two samples of a non-empty GPU ring.
C8_Witness ==
  /\ HistoryReturned
  /\ ret.cmd = "get_gpu_usage_history"
  /\ Len(ret.samples) = 2
  /\ Len(gpu_history) = HISTORY_CAPACITY - 1

\* Every call a caller may make.
Calls ==
  ((Commands \ HistoryCommands) \X {0}) \cup (HistoryCommands \X SecondsValues)

\* C9: with no Sampler step in between, repeated calls give identical
\* results: a command that returns leaves a state on which the same call
\* returns the same, and no step of any command changes what any call
\* returns.
C9_IdempotentRead ==
  [][ acc' # acc =>
        \A c \in Calls :
          /\ Result(c[1], c[2])' = Result(c[1], c[2])
          /\ (ret'.outcome = "ok" /\ ret'.cmd = c[1] /\ ret'.seconds = c[2])
               => Result(c[1], c[2])' =
                    [value |-> ret'.value, samples |-> ret'.samples] ]_vars

\* After a completed tick, get_memory_usage returned 38.
C9_Witness ==
  /\ ret.outcome = "ok"
  /\ ret.cmd = "get_memory_usage"
  /\ ticks >= 1
  /\ ret.value = 38

\* A percentage.
InRange(x) == x \in 0..100

\* C10 as stated: every CPU and memory sample the Sampler computes and
\* pushes, and every value get_cpu_usage and get_memory_usage return, is in
\* 0..100, zero cores and zero total memory included.
C10_PercentagesInRange ==
  /\ \A i \in 1..Len(pushed.cpu) : InRange(pushed.cpu[i])
  /\ \A i \in 1..Len(pushed.memory) : InRange(pushed.memory[i])
  /\ (ret.outcome = "ok" /\ ret.cmd \in {"get_cpu_usage", "get_memory_usage"})
       => InRange(ret.value)

\* C11 as stated: for every used <= total with total > 0 the memory
\* percentage, as computed by the Sampler for its push and as returned by
\* get_memory_usage, is used * 100 / total rounded to the nearest integer,
\* halves away from zero.
C11_MemoryRoundedToNearest ==
  /\ (pc \in {"lock_cpu", "evict_cpu", "push_cpu", "lock_memory",
              "evict_memory", "push_memory"} /\ system.total_memory > 0)
       => memory_usage = round(system.used_memory * 100, system.total_memory)
  /\ (ret.outcome = "ok" /\ ret.cmd = "get_memory_usage"
        /\ committed.total_memory > 0)
       => ret.value = round(committed.used_memory * 100, committed.total_memory)

\* On this machine the GPU probe returns Err (here: no device is found).
GpuSensorFails == ~gpu_probe.ok

\* C12: on a machine whose GPU probe finds no device, get_gpu_usage returns
\* 0, and every loop body the Sampler has run to its end has pushed its CPU
\* sample and its memory sample.
C12_GpuFailureHarmless ==
  GpuSensorFails =>
    /\ (ret.outcome = "ok" /\ ret.cmd = "get_gpu_usage") => ret.value = 0
    /\ Len(pushed.cpu) >= ticks
    /\ Len(pushed.memory) >= ticks
    /\ pc = "sleep" => (Len(pushed.cpu) = ticks /\ Len(pushed.memory) = ticks)

\* Without a GPU, get_gpu_usage returned 0 after two full ticks.
C12_Witness ==
  /\ GpuSensorFails
  /\ ticks = 2
  /\ Len(pushed.cpu) = 2
  /\ Len(pushed.memory) = 2
  /\ ret.outcome = "ok"
  /\ ret.cmd = "get_gpu_usage"
  /\ ret.value = 0

\* C13 as stated: once started, the Sampler stays Running: its thread never
\* ends while the process lives.
C13_SamplerStaysRunning == pc # "panicked"

\* C14 as stated: after a failed attempt to lock the system Mutex the Sampler
\* sleeps a full interval before it tries again: no second failed attempt
\* follows the first without a sleep in between.
C14_SleepBetweenAttempts == spins <= 1

\* C15 as stated: when the Sampler meets a poisoned history ring it skips that
\* metric's push and goes on with the rest of the tick: from the poisoned
\* cpu_history to the memory push, from the poisoned memory_history to the end
\* of the block.
C15_PoisonedRingSkipped ==
  [][ /\ (pc = "lock_cpu" /\ poisoned["cpu_history"] /\ pc' # pc)
           => pc' = "lock_memory"
      /\ (pc = "lock_memory" /\ poisoned["memory_history"] /\ pc' # pc)
           => pc' = "unlock_system" ]_vars

\* The metric a command reads.
MetricRead(cmd) ==
  CASE cmd \in {"get_cpu_usage", "get_cpu_usage_history"} -> "cpu"
    [] cmd \in {"get_memory_usage", "get_memory_usage_history"} -> "memory"
    [] cmd \in {"get_gpu_usage", "get_gpu_usage_history"} -> "gpu"

\* The metrics on whose behalf the guard of Mutex l is held: that of the
\* command holding it, that of the ring the Sampler pushes onto, and both CPU
\* and memory for the Sampler's guard of the system snapshot.
HeldFor(l) ==
  IF holder[l] \in Accessors THEN {MetricRead(acc[holder[l]].cmd)}
  ELSE IF holder[l] = NoThread THEN {}
  ELSE CASE l = "system" -> {"cpu", "memory"}
         [] l = "cpu_history" -> {"cpu"}
         [] l = "memory_history" -> {"memory"}
         [] OTHER -> {"gpu"}

\* Caller a waits for a guard another thread holds.
Blocked(a) == acc[a].pc = "waiting" /\ ~lock_free(LockOf(acc[a].cmd))

\* C16: a command reading one metric never waits for a lock held on behalf
\* of another metric.
C16_NoCrossMetricWait ==
  \A a \in Accessors :
    Blocked(a) => HeldFor(LockOf(acc[a].cmd)) \subseteq {MetricRead(acc[a].cmd)}

\* C17: the GPU path is inert.  In every reachable state the gpu_usage cell
\* holds the value it was created with and gpu_history is the ring handed to
\* initialize_system, nothing having been pushed onto it; get_gpu_usage
\* returns that value and get_gpu_usage_history the newest entries of that
\* ring, none when it started empty.
C17_GpuInert ==
  /\ gpu_usage = InitialGpuUsage
  /\ gpu_history = initial.gpu
  /\ pushed.gpu = <<>>
  /\ (ret.outcome = "ok" /\ ret.cmd = "get_gpu_usage")
       => ret.value = as_i32(InitialGpuUsage)
  /\ (ret.outcome = "ok" /\ ret.cmd = "get_gpu_usage_history")
       => /\ ret.samples = rev_take(initial.gpu, ret.seconds)
          /\ initial.gpu = <<>> => ret.samples = <<>>

\* On a machine with a GPU at 30 percent, after two ticks,
\* get_gpu_usage_history returned the empty history it started with.
C17_Witness ==
  /\ gpu_probe.ok
  /\ host.gpus.devices[1].percent = 30
  /\ ticks = 2
  /\ initial.gpu = <<>>
  /\ ret.outcome = "ok"
  /\ ret.cmd = "get_gpu_usage_history"
  /\ ret.seconds = HISTORY_CAPACITY
  /\ ret.samples = <<>>

\* No Mutex is poisoned.
NoPoison == \A l \in Locks : ~poisoned[l]

\* The Sampler is between its refresh and the end of its memory push.
BeforeCpuPush == pc \in {"lock_cpu", "evict_cpu", "push_cpu"}
BeforeMemoryPush == pc \in {"lock_memory", "evict_memory", "push_memory"}

\* C19: with no poisoned lock, the CPU ring has received as many pushes as
\* the memory ring or exactly one more, and as many whenever the Sampler does
\* not hold the system lock; in a tick the CPU push comes first, and both
\* pushes are made under the system lock.  On rings that started empty the
\* pushes are the rings' contents.
C19_PushOrder ==
  NoPoison =>
    /\ Len(pushed.cpu) - Len(pushed.memory) \in {0, 1}
    /\ holder["system"] # "sampler" => Len(pushed.cpu) = Len(pushed.memory)
    /\ (BeforeCpuPush \/ BeforeMemoryPush) => holder["system"] = "sampler"
    /\ BeforeCpuPush => Len(pushed.cpu) = Len(pushed.memory)
    /\ BeforeMemoryPush => Len(pushed.cpu) = Len(pushed.memory) + 1
    /\ initial.cpu = <<>> => cpu_history = pushed.cpu
    /\ initial.memory = <<>> => memory_history = pushed.memory

\* In the second tick, on rings that started empty, the CPU ring has two
\* samples and the memory ring one.
C19_Witness ==
  /\ NoPoison
  /\ pc = "push_memory"
  /\ holder["system"] = "sampler"
  /\ initial.cpu = <<>>
  /\ Len(cpu_history) = 2
  /\ Len(memory_history) = 1

\* C20 as stated: whenever the Sampler does not hold the system lock and at
\* least one tick has completed, what get_cpu_usage returns is the newest
\* entry of the CPU ring and what get_memory_usage returns is the newest
\* entry of the memory ring.
C20_CurrentAgreesWithHistory ==
  (holder["system"] # "sampler" /\ ticks >= 1) =>
    /\ Result("get_cpu_usage", 0).value = cpu_history[Len(cpu_history)]
    /\ Result("get_memory_usage", 0).value =
         memory_history[Len(memory_history)]

\* The Mutexes whose guard thread t holds.
HeldBy(t) == {l \in Locks : holder[l] = t}

\* The lock order: the Sampler holds a ring's lock only under the system
\* lock, never two rings' locks and never a GPU lock, and none while it
\* sleeps (or after its thread has ended); a command holds at most one lock.
LockDiscipline ==
  /\ HeldBy("sampler") \in {{}, {"system"}, {"system", "cpu_history"},
                            {"system", "memory_history"}}
  /\ pc \in {"sleep", "lock_system", "panicked"} => HeldBy("sampler") = {}
  /\ \A a \in Accessors : Cardinality(HeldBy(a)) <= 1

\* C18: the lock order holds in every state, and under fair scheduling with
\* no poisoned lock every command that was invoked returns and every tick the
\* Sampler has begun reaches its sleep.
C18_AccessorsComplete ==
  /\ []LockDiscipline
  /\ \A a \in Accessors :
       (NoPoison /\ acc[a].pc # "idle") ~> (acc[a].pc = "idle")
  /\ (NoPoison /\ holder["system"] = "sampler") ~> (pc = "sleep")

\* The Mutex thread t is waiting for in lock(), held by another thread.
WaitsFor(t) ==
  IF t \in Accessors
  THEN IF Blocked(t) THEN {LockOf(acc[t].cmd)} ELSE {}
  ELSE {l \in Locks : /\ ~lock_free(l)
                      /\ \/ pc = "lock_system" /\ l = "system"
                         \/ pc = "lock_cpu" /\ l = "cpu_history"
                         \/ pc = "lock_memory" /\ l = "memory_history"}

\* No circular wait: the holder of a Mutex is not waiting, or waits for a
\* Mutex whose holder is not waiting.
NoWaitCycle ==
  \A l \in Locks :
    holder[l] # NoThread =>
      \A w \in WaitsFor(holder[l]) : WaitsFor(holder[w]) = {}

\* C18, amended: the lock order holds and no wait is circular in every
\* state, every command that holds its guard returns, and the Sampler gives
\* back every ring lock it takes.
C18_LockHoldersComplete ==
  /\ []LockDiscipline
  /\ []NoWaitCycle
  /\ \A a \in Accessors : (acc[a].pc = "locked") ~> (acc[a].pc = "idle")
  /\ \A l \in {"cpu_history", "memory_history"} :
       (holder[l] = "sampler") ~> (holder[l] # "sampler")

\* With no poisoned lock, the Sampler holds the system lock and the memory
\* ring's lock while one command waits for the system lock and another for
\* the memory ring.
C18_Witness ==
  /\ NoPoison
  /\ HeldBy("sampler") = {"system", "memory_history"}
  /\ acc["a1"].cmd = "get_cpu_usage"
  /\ Blocked("a1")
  /\ acc["a2"].cmd = "get_memory_usage_history"
  /\ Blocked("a2")

====
